---- MODULE Spec2Model ----
(***************************************************************************)
(* OrcaAI request-orchestration pipeline: health tracker, router/scorer,   *)
(* response cache, unary executor with fallback, metrics emission.         *)
(*                                                                         *)
(* Conventions of the model                                                *)
(*  - Go strings are sequences of tokens (a token stands for a run of      *)
(*    characters); "" is <<>>; fmt.Sprintf concatenation is \o.            *)
(*  - Provider and model names are single tokens, written as TLA+ strings; *)
(*    Str(s) turns a name into the string it denotes.                      *)
(*  - Time is counted in minutes since start-up.                           *)
(*  - Scores are the code's float64 values times 10000 (all inputs of the  *)
(*    descriptor table make these exact integers).                         *)
(***************************************************************************)
EXTENDS Integers, Sequences, FiniteSets, TLC

VARIABLES
    providerStatus,  \* map key -> *ProviderStatus          (part_007:155)
    cache,           \* InMemoryCache.data                  (cache.go:112)
    now,             \* wall clock, minutes
    last,            \* what the most recent handler call did and returned
    goroutines,      \* position and locals of each goroutine inside an operation
    healthCheckers,  \* live lb.healthChecker goroutines    (load_balancer.go:40)
    cacheBackend,    \* what the Cache interface variable holds (part_007:152)
    redis,           \* the Redis server behind RedisCache  (cache.go:32)
    lb,              \* a LoadBalancer: providers, status   (load_balancer.go:18)
    store,           \* RateLimitMiddleware buckets         (connection.go:282)
    idempotencyCache,\* IdempotencyMiddleware entries       (connection.go:304)
    downstream       \* what the middleware chain let through

\* state that the pipeline's handlers never touch
otherVars == <<cacheBackend, lb, store, idempotencyCache, downstream>>

vars == <<providerStatus, cache, now, last, goroutines, healthCheckers, redis, otherVars>>

----------------------------------------------------------------------------
(* Bounds of the model *)

MaxTime == 10
TickStep == 5
MaxErrorCount == 7
MaxCacheTime == 120
CacheTickStep == 30
NumGoroutines == 3
MaxCheckers == 2
Limit == 2
MaxMiddlewareTime == 6
MiddlewareTickStep == 3

(* Program constants *)

ErrorThreshold == 5
Quarantine == 5
CacheExpiration == 60
TokenChars == 4
MaxFallbacks == 2
ConfidencePromptLength == 1000
\* seconds
AttemptTimeout == 30
MaxRetries == 3
\* minutes
RateWindow == 1
IdempotencyWindow == 5
\* seconds
RetryDelay == 2
CircuitBreakerThreshold == 5

----------------------------------------------------------------------------
(* Strings *)

Str(s) == IF s = "" THEN <<>> ELSE <<s>>

\* number of bytes a token stands for
TokenLen(tok) == IF tok = "L" THEN 20000 ELSE 5

RECURSIVE StrLen(_)
StrLen(s) == IF s = <<>> THEN 0 ELSE TokenLen(Head(s)) + StrLen(Tail(s))

Min(a, b) == IF a < b THEN a ELSE b

----------------------------------------------------------------------------
(* Descriptor table *)

Prov(name, model, cost, lat, rel, maxTok) ==
    [Name |-> name, Model |-> model, CostPer1K |-> cost, AvgLatency |-> lat,
     Reliability |-> rel, MaxTokens |-> maxTok]

\* CostPer1K in 1/1000 dollar, Reliability in 1/100
availableProviders ==
    [t \in {"text-generation", "summarization", "code-generation"} |->
        CASE t = "text-generation" ->
               << Prov("openai", "gpt-4", 30, 2000, 95, 8000),
                  Prov("openai", "gpt-3.5-turbo", 2, 1000, 90, 4000),
                  Prov("claude", "claude-3-opus", 15, 3000, 98, 200000),
                  Prov("claude", "claude-3-sonnet", 3, 1500, 95, 200000),
                  Prov("gemini", "gemini-pro", 1, 2500, 85, 30000) >>
          [] t = "summarization" ->
               << Prov("claude", "claude-3-sonnet", 3, 1500, 95, 200000),
                  Prov("openai", "gpt-3.5-turbo", 2, 1000, 90, 4000) >>
          [] t = "code-generation" ->
               << Prov("openai", "gpt-4", 30, 2000, 95, 8000),
                  Prov("claude", "claude-3-opus", 15, 3000, 98, 200000) >>]

\* weights in 1/10
defaultCriteria ==
    [CostWeight |-> 3, LatencyWeight |-> 3, ReliabilityWeight |-> 3, QualityWeight |-> 1]

\* providers, exists := availableProviders[taskType]; if !exists { text-generation }
ProvidersFor(taskType) ==
    IF taskType \in DOMAIN availableProviders
    THEN availableProviders[taskType]
    ELSE availableProviders["text-generation"]

\* adapters registered by the init() functions
providerRegistry == {"openai"}

----------------------------------------------------------------------------
(* Health tracker *)

NoError == "<nil>"

StatusKey(provider, model) == Str(provider) \o <<":">> \o Str(model)

UpdateProviderStatus(ps, provider, model, healthy, err, t) ==
    LET key == StatusKey(provider, model)
        created == [Name |-> provider, Model |-> model, Healthy |-> TRUE,
                    LastCheck |-> t, ErrorCount |-> 0, LastError |-> ""]
        status == IF key \in DOMAIN ps THEN ps[key] ELSE created
        checked == [status EXCEPT !.LastCheck = t]
        count == checked.ErrorCount + 1
        updated ==
            IF healthy
            THEN [checked EXCEPT !.ErrorCount = 0, !.LastError = "", !.Healthy = TRUE]
            ELSE [checked EXCEPT
                    !.ErrorCount = count,
                    !.LastError = IF err # NoError THEN err ELSE @,
                    !.Healthy = IF count > ErrorThreshold THEN FALSE ELSE @]
    IN [k \in DOMAIN ps \cup {key} |-> IF k = key THEN updated ELSE ps[k]]

\* a tracker that never lets a stale record recover
HealthyAtNoRecovery(ps, provider, model, t) ==
    LET key == StatusKey(provider, model)
    IN IF key \notin DOMAIN ps THEN TRUE ELSE ps[key].Healthy

HealthyAt(ps, provider, model, t) ==
    LET key == StatusKey(provider, model)
    IN IF key \notin DOMAIN ps THEN TRUE
       ELSE IF t - ps[key].LastCheck > Quarantine THEN TRUE
       ELSE ps[key].Healthy

IsProviderHealthy(provider, model) == HealthyAt(providerStatus, provider, model, now)

----------------------------------------------------------------------------
(* Cache *)

Nil == [nil |-> TRUE]

\* the string handed to md5.Sum; the digest is taken to be collision free, so
\* the hex digest is identified with its pre-image
GenerateCacheKey(prompt, taskType, provider, model) ==
    prompt \o <<":">> \o taskType \o <<":">> \o provider \o <<":">> \o model

\* a cache whose Get consumes the entry it returns
InMemoryGetOnce(data, key, t) ==
    IF key \in DOMAIN data
    THEN [result |-> IF t - data[key].CreatedAt < CacheExpiration THEN data[key] ELSE Nil,
          data |-> [k \in DOMAIN data \ {key} |-> data[k]]]
    ELSE [result |-> Nil, data |-> data]

\* InMemoryCache.Get: the entry and the map it leaves behind
InMemoryGet(data, key, t) ==
    IF key \in DOMAIN data
    THEN IF t - data[key].CreatedAt < CacheExpiration
         THEN [result |-> data[key], data |-> data]
         ELSE [result |-> Nil, data |-> [k \in DOMAIN data \ {key} |-> data[k]]]
    ELSE [result |-> Nil, data |-> data]

\* InMemoryCache.Set
InMemorySet(data, key, result, expiration, t) ==
    LET stamped == [result EXCEPT !.CreatedAt = t]
    IN [k \in DOMAIN data \cup {key} |-> IF k = key THEN stamped ELSE data[k]]

\* InMemoryCache.Delete
InMemoryDelete(data, key) == [k \in DOMAIN data \ {key} |-> data[k]]

\* InitializeCache(cacheType, addr, password, db): what the interface variable
\* `cache` holds afterwards. When the ping fails NewRedisCache returns a nil
\* *RedisCache with its error, and the assignment stores that nil pointer in
\* the interface: the variable then compares unequal to nil
InitializeCache(cacheType, reachable) ==
    IF cacheType = "redis"
    THEN IF reachable THEN "redis" ELSE "nilRedis"
    ELSE "memory"

\* a method called on the nil *RedisCache reads r.client
Panic == [panic |-> TRUE]
NilDereference == "runtime error: invalid memory address or nil pointer dereference"

\* json.Marshal of a CacheResult, and json.Unmarshal of the text: Response
\* comes back as a generic JSON value
Marshal(result) == [text |-> result]
Unmarshal(val) == [val.text EXCEPT !.Response = [json |-> @]]

\* RedisCache.Get: the server drops a key when its expiration has passed
RedisGet(rs, key, t) ==
    IF ~rs.up
    THEN [result |-> Nil, err |-> "failed to get cache entry"]
    ELSE IF key \in DOMAIN rs.keys /\ t < rs.keys[key].expireAt
    THEN [result |-> Unmarshal(rs.keys[key].val), err |-> NoError]
    ELSE [result |-> Nil, err |-> NoError]

\* RedisCache.Set
RedisSet(rs, key, result, expiration, t) ==
    IF ~rs.up
    THEN [redis |-> rs, err |-> "failed to set cache entry"]
    ELSE [redis |-> [rs EXCEPT !.keys =
                        [k \in DOMAIN rs.keys \cup {key} |->
                            IF k = key
                            THEN [val |-> Marshal(result), expireAt |-> t + expiration]
                            ELSE rs.keys[k]]],
          err |-> NoError]

\* cache.Get(ctx, key) through the interface: the entry (Nil on a miss and on
\* an error) and the in-memory map the call leaves behind
InterfaceGet(key) ==
    CASE cacheBackend = "memory" -> InMemoryGet(cache, key, now)
      [] cacheBackend = "redis" -> [result |-> RedisGet(redis, key, now).result,
                                    data |-> cache]
      [] cacheBackend = "nilRedis" -> [result |-> Panic, data |-> cache]

\* CacheResponseResult: the in-memory map it leaves
CacheResponseResult(data, prompt, taskType, provider, model, response, t) ==
    LET cacheKey == GenerateCacheKey(prompt, Str(taskType), Str(provider), Str(model))
        result == [Response |-> response, CreatedAt |-> 0, Provider |-> provider,
                   Model |-> model, CachedKey |-> cacheKey]
    IN IF cacheBackend = "memory"
       THEN InMemorySet(data, cacheKey, result, CacheExpiration, t)
       ELSE data

\* CacheResponseResult: the Redis keyspace it leaves (the error of a failed Set
\* is returned to AIQuery, which ignores it)
CacheResponseResultRedis(rs, prompt, taskType, provider, model, response, t) ==
    LET cacheKey == GenerateCacheKey(prompt, Str(taskType), Str(provider), Str(model))
        result == [Response |-> response, CreatedAt |-> 0, Provider |-> provider,
                   Model |-> model, CachedKey |-> cacheKey]
    IN IF cacheBackend = "redis"
       THEN RedisSet(rs, cacheKey, result, CacheExpiration, t).redis
       ELSE rs

----------------------------------------------------------------------------
(* Router / scorer *)

qualityMatrix ==
    [m \in {"gpt-4", "gpt-3.5-turbo", "claude-3-opus", "claude-3-sonnet", "gemini-pro"} |->
       CASE m = "gpt-4" ->
              [x \in {"text-generation", "code-generation", "summarization", "reasoning"} |->
                 CASE x = "text-generation" -> 950 [] x = "code-generation" -> 900
                   [] x = "summarization" -> 850 [] x = "reasoning" -> 950]
         [] m = "gpt-3.5-turbo" ->
              [x \in {"text-generation", "code-generation", "summarization", "conversation"} |->
                 CASE x = "text-generation" -> 800 [] x = "code-generation" -> 700
                   [] x = "summarization" -> 850 [] x = "conversation" -> 900]
         [] m = "claude-3-opus" ->
              [x \in {"text-generation", "code-generation", "summarization", "reasoning"} |->
                 CASE x = "text-generation" -> 980 [] x = "code-generation" -> 950
                   [] x = "summarization" -> 950 [] x = "reasoning" -> 980]
         [] m = "claude-3-sonnet" ->
              [x \in {"text-generation", "code-generation", "summarization", "conversation"} |->
                 CASE x = "text-generation" -> 850 [] x = "code-generation" -> 800
                   [] x = "summarization" -> 900 [] x = "conversation" -> 880]
         [] m = "gemini-pro" ->
              [x \in {"text-generation", "multimodal", "summarization"} |->
                 CASE x = "text-generation" -> 750 [] x = "multimodal" -> 900
                   [] x = "summarization" -> 700]]

calculateQualityScore(provider, taskType) ==
    IF provider.Model \in DOMAIN qualityMatrix
    THEN IF taskType \in DOMAIN qualityMatrix[provider.Model]
         THEN qualityMatrix[provider.Model][taskType]
         ELSE 700
    ELSE 700

\* the float64 score times 10000
calculateScore(provider, promptLength, taskType) ==
    LET costScore == 1000 - Min(provider.CostPer1K * 20, 1000)
        latencyScore == 1000 - Min(provider.AvgLatency \div 5, 1000)
        reliabilityScore == provider.Reliability * 10
        qualityScore == calculateQualityScore(provider, taskType)
        estimatedTokens == promptLength \div TokenChars
        tokenCapacityScore == IF estimatedTokens > provider.MaxTokens THEN 0 ELSE 1
        score == costScore * defaultCriteria.CostWeight
                 + latencyScore * defaultCriteria.LatencyWeight
                 + reliabilityScore * defaultCriteria.ReliabilityWeight
                 + qualityScore * defaultCriteria.QualityWeight
    IN score * tokenCapacityScore

RECURSIVE ScoreLoop(_, _, _, _, _, _)
ScoreLoop(providers, i, promptLength, taskType, bestScore, bestProvider) ==
    IF i > Len(providers) THEN bestProvider
    ELSE LET score == calculateScore(providers[i], promptLength, taskType)
         IN IF score > bestScore
            THEN ScoreLoop(providers, i + 1, promptLength, taskType, score, providers[i])
            ELSE ScoreLoop(providers, i + 1, promptLength, taskType, bestScore, bestProvider)

scoreProviders(providers, prompt, taskType) ==
    ScoreLoop(providers, 1, StrLen(prompt), taskType, -1, Prov("", "", 0, 0, 0, 0))

RECURSIVE SecondBestLoop(_, _, _, _)
SecondBestLoop(bestProvider, allProviders, i, secondBestScore) ==
    IF i > Len(allProviders) THEN secondBestScore
    ELSE LET p == allProviders[i]
             score == calculateScore(p, ConfidencePromptLength, "text-generation")
         IN IF (p.Name # bestProvider.Name \/ p.Model # bestProvider.Model)
               /\ score > secondBestScore
            THEN SecondBestLoop(bestProvider, allProviders, i + 1, score)
            ELSE SecondBestLoop(bestProvider, allProviders, i + 1, secondBestScore)

\* the float64 confidence times 10000
calculateConfidence(bestProvider, allProviders) ==
    IF Len(allProviders) <= 1 THEN 10000
    ELSE LET bestScore == calculateScore(bestProvider, ConfidencePromptLength, "text-generation")
             gap == bestScore - SecondBestLoop(bestProvider, allProviders, 1, 0)
         IN Min(5000 + gap, 10000)

generateReasoning(provider, taskType) ==
    LET reasons ==
            (IF provider.CostPer1K < 10 THEN <<"cost-effective">> ELSE <<>>)
         \o (IF provider.AvgLatency < 2000 THEN <<"fast response">> ELSE <<>>)
         \o (IF provider.Reliability > 95 THEN <<"high reliability">> ELSE <<>>)
         \o (IF provider.MaxTokens > 10000 THEN <<"large context window">> ELSE <<>>)
    IN <<"Selected for ">> \o Str(taskType) \o <<": ">>
       \o (IF reasons = <<>> THEN <<"balanced performance">> ELSE reasons)

RECURSIVE getFallbacksLoop(_, _, _, _, _)
getFallbacksLoop(providers, i, excludeProvider, excludeModel, fallbacks) ==
    IF i > Len(providers) THEN fallbacks
    ELSE LET p == providers[i]
             next == IF p.Name # excludeProvider \/ p.Model # excludeModel
                     THEN Append(fallbacks, p) ELSE fallbacks
         IN IF Len(next) >= MaxFallbacks THEN next
            ELSE getFallbacksLoop(providers, i + 1, excludeProvider, excludeModel, next)

getFallbacks(taskType, excludeProvider, excludeModel) ==
    getFallbacksLoop(ProvidersFor(taskType), 1, excludeProvider, excludeModel, <<>>)

\* providers of every task type when taskType is unknown
findSpecificProvider(name, model, taskType) ==
    LET lists == IF taskType \in DOMAIN availableProviders
                 THEN {taskType} ELSE DOMAIN availableProviders
    IN \E t \in lists : \E i \in 1..Len(availableProviders[t]) :
          /\ availableProviders[t][i].Name = name
          /\ availableProviders[t][i].Model = model

Swap(f, i, j) == [f EXCEPT ![i] = f[j], ![j] = f[i]]

RECURSIVE SortInner(_, _, _)
SortInner(f, i, j) ==
    IF j > Len(f) THEN f
    ELSE SortInner(IF f[i].Reliability < f[j].Reliability THEN Swap(f, i, j) ELSE f, i, j + 1)

RECURSIVE SortByReliability(_, _)
SortByReliability(f, i) ==
    IF i > Len(f) - 1 THEN f ELSE SortByReliability(SortInner(f, i, i + 1), i + 1)

\* a fallback list that forgets to skip the excluded provider
GetFallbackProvidersKeepAll(taskType, excludeProvider, excludeModel) ==
    SortByReliability(SelectSeq(ProvidersFor(taskType),
                        LAMBDA p : IsProviderHealthy(p.Name, p.Model)), 1)

GetFallbackProviders(taskType, excludeProvider, excludeModel) ==
    LET kept == SelectSeq(ProvidersFor(taskType),
                  LAMBDA p : /\ ~(p.Name = excludeProvider /\ p.Model = excludeModel)
                             /\ IsProviderHealthy(p.Name, p.Model))
    IN SortByReliability(kept, 1)

autoRoute(prompt, taskType) ==
    LET tt == IF taskType = "" THEN "text-generation" ELSE taskType
        providers == ProvidersFor(tt)
        bestProvider == scoreProviders(providers, prompt, tt)
    IN IF Len(providers) = 0
       THEN [err |-> "no providers available"]
       ELSE [err |-> NoError,
             Provider |-> bestProvider.Name,
             Model |-> bestProvider.Model,
             Confidence |-> calculateConfidence(bestProvider, providers),
             Reasoning |-> generateReasoning(bestProvider, tt),
             Fallbacks |-> getFallbacks(tt, bestProvider.Name, bestProvider.Model)]

\* autoRoute reads no mutable state: its results are tabulated once
Prompts == {<<"hello">>}
AllTaskTypes == {"", "text-generation", "summarization", "code-generation", "translation"}
\* a prompt of 820000 bytes: its token estimate exceeds every MaxTokens
HugePrompt == [i \in 1..41 |-> "L"]
RoutedPrompts == Prompts \cup {HugePrompt}
autoRouteTable == [p \in RoutedPrompts, t \in AllTaskTypes |-> autoRoute(p, t)]

CacheHitReasoning == <<"Cache hit - returning cached result">>
PinnedReasoning == <<"User-specified provider and model">>

\* RouteRequest after its cache read `got`; an expired entry was evicted by the
\* read, so the map the read leaves behind is returned with the result (data)
RouteAfterCacheGet(prompt, taskType, preferredProvider, preferredModel, got) ==
    [data |-> got.data,
     result |->
        IF got.result = Panic
        THEN [err |-> NilDereference]
        ELSE IF got.result # Nil
        THEN [err |-> NoError,
              Provider |-> got.result.Provider,
              Model |-> got.result.Model,
              Confidence |-> 10000,
              Reasoning |-> CacheHitReasoning,
              Fallbacks |-> GetFallbackProviders(taskType, got.result.Provider,
                                                 got.result.Model)]
        ELSE IF /\ preferredProvider # "" /\ preferredModel # ""
                /\ findSpecificProvider(preferredProvider, preferredModel, taskType)
                /\ IsProviderHealthy(preferredProvider, preferredModel)
        THEN [err |-> NoError,
              Provider |-> preferredProvider,
              Model |-> preferredModel,
              Confidence |-> 10000,
              Reasoning |-> PinnedReasoning,
              Fallbacks |-> GetFallbackProviders(taskType, preferredProvider,
                                                 preferredModel)]
        ELSE autoRouteTable[prompt, taskType]]

RouteRequest(prompt, taskType, preferredProvider, preferredModel) ==
    RouteAfterCacheGet(prompt, taskType, preferredProvider, preferredModel,
        InterfaceGet(GenerateCacheKey(prompt, Str(taskType), Str(preferredProvider),
                                      Str(preferredModel))))

\* result.Fallbacks = GetFallbackProviders(taskType, result.Provider, result.Model)
AddFallbacks(taskType, routed) ==
    IF routed.result.err # NoError THEN routed
    ELSE [routed EXCEPT !.result.Fallbacks =
             GetFallbackProviders(taskType, routed.result.Provider, routed.result.Model)]

RouteRequestWithFallback(prompt, taskType, preferredProvider, preferredModel) ==
    AddFallbacks(taskType,
                 RouteRequest(prompt, taskType, preferredProvider, preferredModel))

----------------------------------------------------------------------------
(* Executor *)

\* one attempt: the registry lookup, then the adapter call under its own
\* context.WithTimeout(context.Background(), 30s). The upstream reacts after
\* upstream.Delay seconds: it answers `upstream` when the model is among the
\* models `up` that currently respond, and an error otherwise. `took` is the
\* time the attempt lasted, in seconds.
makeAIRequest(provider, model, req, up, upstream) ==
    IF provider \notin providerRegistry
    THEN [err |-> "unsupported provider", called |-> FALSE, took |-> 0]
    ELSE IF upstream.Delay >= AttemptTimeout
    THEN [err |-> "context deadline exceeded", called |-> TRUE, took |-> AttemptTimeout]
    ELSE IF model \in up
    THEN [err |-> NoError, called |-> TRUE, took |-> upstream.Delay,
          response |-> [Content |-> upstream.Content, Provider |-> provider,
                        Model |-> model, Cost |-> upstream.Cost]]
    ELSE [err |-> "upstream error", called |-> TRUE, took |-> upstream.Delay]

Attempt(provider, model, r) == [Provider |-> provider, Model |-> model, err |-> r.err,
                                called |-> r.called, took |-> r.took]

RECURSIVE FallbackLoop(_, _, _, _, _, _, _, _)
FallbackLoop(fallbacks, i, req, up, upstream, ps, attempts, t) ==
    IF i > Len(fallbacks)
    THEN [err |-> "all providers failed after fallback attempts", ps |-> ps,
          attempts |-> attempts]
    ELSE LET fallback == fallbacks[i]
             r == makeAIRequest(fallback.Name, fallback.Model, req, up, upstream)
             tried == Append(attempts, Attempt(fallback.Name, fallback.Model, r))
         IN IF r.err = NoError
            THEN [err |-> NoError, response |-> r.response, attempts |-> tried,
                  ps |-> UpdateProviderStatus(ps, fallback.Name, fallback.Model, TRUE, NoError, t)]
            ELSE FallbackLoop(fallbacks, i + 1, req, up, upstream,
                   UpdateProviderStatus(ps, fallback.Name, fallback.Model, FALSE, r.err, t),
                   tried, t)

\* an executor that retries the failed primary once before the fallbacks
makeAIRequestWithRetry(routing, req, up, upstream, ps, t) ==
    LET r == makeAIRequest(routing.Provider, routing.Model, req, up, upstream)
        tried == <<Attempt(routing.Provider, routing.Model, r)>>
    IN IF r.err = NoError
       THEN [err |-> NoError, response |-> r.response, attempts |-> tried,
             ps |-> UpdateProviderStatus(ps, routing.Provider, routing.Model, TRUE, NoError, t)]
       ELSE FallbackLoop(<<[Name |-> routing.Provider, Model |-> routing.Model]>>
                            \o routing.Fallbacks,
              1, req, up, upstream,
              UpdateProviderStatus(ps, routing.Provider, routing.Model, FALSE, r.err, t),
              tried, t)

makeAIRequestWithEnhancedFallback(routing, req, up, upstream, ps, t) ==
    LET r == makeAIRequest(routing.Provider, routing.Model, req, up, upstream)
        tried == <<Attempt(routing.Provider, routing.Model, r)>>
    IN IF r.err = NoError
       THEN [err |-> NoError, response |-> r.response, attempts |-> tried,
             ps |-> UpdateProviderStatus(ps, routing.Provider, routing.Model, TRUE, NoError, t)]
       ELSE FallbackLoop(routing.Fallbacks, 1, req, up, upstream,
              UpdateProviderStatus(ps, routing.Provider, routing.Model, FALSE, r.err, t),
              tried, t)

----------------------------------------------------------------------------
(* LoadBalancer *)

isHealthy(b, providerName) ==
    providerName \in DOMAIN b.status /\ b.status[providerName].Healthy

shouldTripCircuitBreaker(b, providerName) ==
    /\ providerName \in DOMAIN b.status
    /\ b.status[providerName].ErrorCount >= CircuitBreakerThreshold

markUnhealthy(b, providerName, t) ==
    IF providerName \in DOMAIN b.status
    THEN [b EXCEPT !.status[providerName].Healthy = FALSE,
                   !.status[providerName].LastCheck = t]
    ELSE b

pingProvider(provider) == NoError

RECURSIVE checkHealthLoop(_, _, _)
checkHealthLoop(b, i, t) ==
    IF i > Len(b.providers) THEN b
    ELSE LET name == b.providers[i]
             status == IF name \in DOMAIN b.status THEN b.status[name]
                       ELSE [Name |-> name, Healthy |-> TRUE, LastCheck |-> t,
                             ErrorCount |-> 0, LastError |-> ""]
             err == pingProvider(name)
             pinged == IF err # NoError
                       THEN [status EXCEPT !.Healthy = FALSE, !.ErrorCount = @ + 1,
                                           !.LastError = err]
                       ELSE [status EXCEPT !.Healthy = TRUE, !.ErrorCount = 0,
                                           !.LastError = ""]
             checked == [pinged EXCEPT !.LastCheck = t]
         IN checkHealthLoop(
                [b EXCEPT !.status = [k \in DOMAIN b.status \cup {name} |->
                                         IF k = name THEN checked ELSE b.status[k]]],
                i + 1, t)

checkHealth(b, t) == checkHealthLoop(b, 1, t)

\* the loop of ExecuteWithRetry from iteration i on. task: the errors the
\* successive calls of task() return; calls: how many were made; slept: seconds
RECURSIVE RetryLoop(_, _, _, _, _, _, _, _)
RetryLoop(b, provider, task, i, lastErr, calls, slept, t) ==
    IF i >= MaxRetries
    THEN [err |-> <<"all retries failed: ", lastErr>>, calls |-> calls,
          slept |-> slept, lb |-> b]
    ELSE IF ~isHealthy(b, provider)
    THEN RetryLoop(b, provider, task, i + 1, lastErr, calls, slept, t)
    ELSE LET err == task[calls + 1]
         IN IF err = NoError
            THEN [err |-> <<>>, calls |-> calls + 1, slept |-> slept, lb |-> b]
            ELSE IF shouldTripCircuitBreaker(b, provider)
            THEN RetryLoop(markUnhealthy(b, provider, t), provider, task, i + 1,
                           err, calls + 1, slept, t)
            ELSE RetryLoop(b, provider, task, i + 1, err, calls + 1,
                           slept + RetryDelay, t)

ExecuteWithRetry(b, provider, task, t) ==
    RetryLoop(b, provider, task, 0, NoError, 0, 0, t)

----------------------------------------------------------------------------
(* Metrics *)

\* the counter increments one LogRequest call makes (metrics are initialised
\* at start-up, so GetMetrics() is not nil)
LogRequest(m) ==
    IF m.Success
    THEN <<[counter |-> "requests_total", Provider |-> m.Provider, Model |-> m.Model,
            cache_hits_total |-> IF m.CacheHit THEN 1 ELSE 0, Cost |-> m.Cost]>>
    ELSE <<[counter |-> "failed_requests_total", Provider |-> m.Provider,
            Model |-> m.Model, ErrorType |-> m.ErrorType]>>

----------------------------------------------------------------------------
(* Inputs *)

NoWeights == <<>>
Upstreams == {[Content |-> <<"hi">>, Cost |-> 2, Delay |-> 2]}
OpenAIModels == {"gpt-4", "gpt-3.5-turbo"}
\* the upstream either answers for its models or is down
UpSets == {{}, OpenAIModels}

\* every pin a caller can name (the routing properties range over these)
AllPins == {<<"", "">>, <<"openai", "">>, <<"openai", "gpt-4">>,
            <<"openai", "gpt-3.5-turbo">>, <<"claude", "claude-3-opus">>,
            <<"claude", "claude-3-sonnet">>, <<"gemini", "gemini-pro">>}

\* the requests the model submits
TaskTypes == {"code-generation"}
Pins == {<<"", "">>, <<"openai", "gpt-4">>, <<"claude", "claude-3-opus">>}
WeightOptions == {NoWeights, <<30, 30, 30, 10>>, <<50, 50, 50, 10>>}

\* the caller's context (c.Request.Context()): its deadline and the moment the
\* caller cancels, in seconds after the request arrived
NoCtx == [HasDeadline |-> FALSE, Deadline |-> 0, Cancels |-> FALSE, CancelAt |-> 0]

Requests ==
    [Prompt : Prompts, TaskType : TaskTypes, Pin : Pins, Weights : WeightOptions,
     Ctx : {NoCtx}]

----------------------------------------------------------------------------
(* Handler *)

Idle == [op |-> "none"]

Observed(status, error, req, routing, response, metrics, attempts, pinOK) ==
    [op |-> "AIQuery", status |-> status, error |-> error, req |-> req,
     routing |-> routing, response |-> response, metrics |-> metrics,
     attempts |-> attempts, pinEligible |-> pinOK]

CountWithin(ps) == \A k \in DOMAIN ps : ps[k].ErrorCount <= MaxErrorCount

\* AIQuery after the provider attempts `run` (ai_handler.go 152-211)
AIQueryAnswer(req, routed, run, pinOK) ==
    IF run.err # NoError
    THEN /\ CountWithin(run.ps)
         /\ last' = Observed(500, "AI request failed", req, routed.result, Nil,
                       LogRequest([Provider |-> routed.result.Provider,
                                   Model |-> routed.result.Model, Cost |-> 0,
                                   CacheHit |-> FALSE, Success |-> FALSE,
                                   ErrorType |-> "provider_error"]),
                       run.attempts, pinOK)
         /\ providerStatus' = run.ps
         /\ cache' = routed.data
         /\ UNCHANGED <<now, goroutines, redis, otherVars>>
    ELSE /\ CountWithin(run.ps)
         /\ last' = Observed(200, "", req, routed.result,
                       [Content |-> run.response.Content,
                        Provider |-> run.response.Provider,
                        Model |-> run.response.Model,
                        Cost |-> run.response.Cost, CacheHit |-> FALSE],
                       LogRequest([Provider |-> run.response.Provider,
                                   Model |-> run.response.Model,
                                   Cost |-> run.response.Cost,
                                   CacheHit |-> FALSE, Success |-> TRUE]),
                       run.attempts, pinOK)
         /\ providerStatus' = run.ps
         /\ cache' = CacheResponseResult(routed.data, req.Prompt, req.TaskType,
                        run.response.Provider, run.response.Model,
                        run.response, now)
         /\ redis' = CacheResponseResultRedis(redis, req.Prompt, req.TaskType,
                        run.response.Provider, run.response.Model,
                        run.response, now)
         /\ UNCHANGED <<now, goroutines, otherVars>>

\* AIQuery after routing (ai_handler.go 112-152)
AIQueryRouted(req, up, upstream, routed, pinOK) ==
    IF routed.result.err = NilDereference
    THEN \* the panic unwinds the handler; gin.Recovery answers 500
         /\ last' = Observed(500, NilDereference, req, Nil, Nil, <<>>, <<>>, pinOK)
         /\ UNCHANGED <<providerStatus, cache, now, goroutines, redis, otherVars>>
    ELSE IF routed.result.err # NoError
    THEN /\ last' = Observed(500, "Failed to route request", req, Nil, Nil,
                             <<>>, <<>>, pinOK)
         /\ cache' = routed.data
         /\ UNCHANGED <<providerStatus, now, goroutines, redis, otherVars>>
    ELSE IF routed.result.Reasoning = CacheHitReasoning
    THEN /\ last' = Observed(200, "", req, routed.result,
                       [Content |-> <<"Cached response for: ">> \o req.Prompt,
                        Provider |-> routed.result.Provider,
                        Model |-> routed.result.Model,
                        Cost |-> 0, CacheHit |-> TRUE],
                       LogRequest([Provider |-> routed.result.Provider,
                                   Model |-> routed.result.Model, Cost |-> 0,
                                   CacheHit |-> TRUE, Success |-> TRUE]),
                       <<>>, pinOK)
         /\ cache' = routed.data
         /\ UNCHANGED <<providerStatus, now, goroutines, redis, otherVars>>
    ELSE AIQueryAnswer(req, routed,
             makeAIRequestWithEnhancedFallback(routed.result, req, up, upstream,
                                               providerStatus, now),
             pinOK)

\* whether the pin names a descriptor of the task type that is healthy now
PinEligible(req) ==
    /\ findSpecificProvider(req.Pin[1], req.Pin[2], req.TaskType)
    /\ IsProviderHealthy(req.Pin[1], req.Pin[2])

\* NewLoadBalancer: go lb.healthChecker(), which ranges over its ticker for
\* ever. The count is kept up to MaxCheckers, which stands for that many or more
NewLoadBalancer(n) == IF n < MaxCheckers THEN n + 1 ELSE n

\* NewAIBrain: its metrics collector and cache hold no state of the model
NewAIBrain(n) == NewLoadBalancer(n)

\* bound: the JSON body binds; authed: the auth middleware set user_id
AIQuery(bound, authed, req, up, upstream) ==
    /\ healthCheckers' = NewAIBrain(healthCheckers)
    /\ IF ~bound
       THEN /\ last' = Observed(400, "Invalid request format", req, Nil, Nil,
                                <<>>, <<>>, PinEligible(req))
            /\ UNCHANGED <<providerStatus, cache, now, goroutines, redis, otherVars>>
       ELSE IF ~authed
       THEN /\ last' = Observed(401, "User not authenticated", req, Nil, Nil,
                                <<>>, <<>>, PinEligible(req))
            /\ UNCHANGED <<providerStatus, cache, now, goroutines, redis, otherVars>>
       ELSE AIQueryRouted(req, up, upstream,
                RouteRequestWithFallback(req.Prompt, req.TaskType, req.Pin[1], req.Pin[2]),
                PinEligible(req))

\* AIQueryStream after routing: one makeAIRequest for the primary, no health
\* update, no cache write, no LogRequest
AIQueryStreamRouted(req, routed, r) ==
    /\ last' = [Observed(IF r.err = NoError THEN 200 ELSE 500,
                         IF r.err = NoError THEN "" ELSE "provider error",
                         req, routed.result,
                         IF r.err = NoError
                         THEN [Content |-> r.response.Content,
                               Provider |-> r.response.Provider,
                               Model |-> r.response.Model]
                         ELSE Nil,
                         <<>>,
                         <<Attempt(routed.result.Provider, routed.result.Model, r)>>,
                         PinEligible(req))
                EXCEPT !.op = "AIQueryStream"]
    /\ cache' = routed.data
    /\ UNCHANGED <<providerStatus, now, goroutines, healthCheckers, redis, otherVars>>

\* bound: the JSON body binds
AIQueryStream(bound, req, up, upstream) ==
    IF ~bound
    THEN /\ last' = [Observed(400, "invalid request", req, Nil, Nil, <<>>, <<>>,
                              PinEligible(req))
                     EXCEPT !.op = "AIQueryStream"]
         /\ UNCHANGED <<providerStatus, cache, now, goroutines, healthCheckers, redis, otherVars>>
    ELSE LET routed == RouteRequestWithFallback(req.Prompt, req.TaskType,
                                                req.Pin[1], req.Pin[2])
         IN IF routed.result.err = NilDereference
            THEN /\ last' = [Observed(500, NilDereference, req, Nil, Nil, <<>>, <<>>,
                                      PinEligible(req))
                             EXCEPT !.op = "AIQueryStream"]
                 /\ UNCHANGED <<providerStatus, cache, now, goroutines, healthCheckers,
                                redis, otherVars>>
            ELSE IF routed.result.err # NoError
            THEN /\ last' = [Observed(500, "routing error", req, Nil, Nil, <<>>, <<>>,
                                      PinEligible(req))
                             EXCEPT !.op = "AIQueryStream"]
                 /\ cache' = routed.data
                 /\ UNCHANGED <<providerStatus, now, goroutines, healthCheckers, redis, otherVars>>
            ELSE AIQueryStreamRouted(req, routed,
                     makeAIRequest(routed.result.Provider, routed.result.Model,
                                   req, up, upstream))

\* time passes
Advance(step, max) ==
    /\ now + step <= max
    /\ now' = now + step
    /\ UNCHANGED <<providerStatus, cache, last, goroutines, healthCheckers, redis, otherVars>>

Tick == Advance(TickStep, MaxTime)

----------------------------------------------------------------------------
(* The request pipeline *)

\* goroutines that may run tracker and cache operations at the same time; the
\* handlers above are taken one at a time and leave them untouched
Goroutines == 1..NumGoroutines
NoRedis == [up |-> TRUE, keys |-> <<>>]
\* NewLoadBalancer: an empty status map; nothing in the package fills providers
NewBalancer == [providers |-> <<>>, status |-> <<>>]
NoBuckets == [map |-> <<>>, buckets |-> <<>>]
\* admitted: per minute, the requests RateLimitMiddleware passed on; executed:
\* per request and minute, the runs of the route's handler
NothingServed == [admitted |-> <<>>, rejected |-> 0, executed |-> <<>>, replayed |-> 0]
\* one more occurrence of k in the tally
Tallied(tally, k) ==
    [x \in DOMAIN tally \cup {k} |->
        IF x = k THEN (IF k \in DOMAIN tally THEN tally[k] + 1 ELSE 1) ELSE tally[x]]
NotStarted == [op |-> "none", pc |-> "idle", ptr |-> "nil", tmp |-> 0]

\* the process after main's start-up with CACHE_TYPE = cacheType, the Redis
\* server answering the ping or not
Started(cacheType, reachable) ==
    /\ providerStatus = <<>>
    /\ cache = <<>>
    /\ now = 0
    /\ last = Idle
    /\ goroutines = [g \in Goroutines |-> NotStarted]
    /\ healthCheckers = 0
    /\ cacheBackend = InitializeCache(cacheType, reachable)
    /\ redis = [NoRedis EXCEPT !.up = reachable]
    /\ lb = NewBalancer
    /\ store = NoBuckets
    /\ idempotencyCache = <<>>
    /\ downstream = NothingServed

\* CACHE_TYPE unset: main takes "memory"
Init == Started("memory", TRUE)

\* a rejected request never reaches the adapters: one representative each
Arrivals ==
    {<<FALSE, TRUE, {}>>, <<TRUE, FALSE, {}>>} \cup {<<TRUE, TRUE, up>> : up \in UpSets}

Next ==
    \/ \E a \in Arrivals, req \in Requests, upstream \in Upstreams :
            AIQuery(a[1], a[2], req, a[3], upstream)
    \/ Tick

Spec == Init /\ [][Next]_vars

----------------------------------------------------------------------------
(* The cache interface on its own: callers of Cache.Set choose the expiration *)

CacheKeys == {GenerateCacheKey(<<"hello">>, <<"text-generation">>, <<"openai">>, <<m>>) :
                 m \in OpenAIModels}
CacheEntries == {[Response |-> [Content |-> c], CreatedAt |-> 0, Provider |-> "openai",
                  Model |-> "gpt-4", CachedKey |-> <<>>] : c \in {<<"hi">>, <<"ok">>}}
Expirations == {30, 60, 90}

NoGet == [key |-> <<>>, result |-> Nil, at |-> 0]

\* cache.Set(ctx, key, result, expiration); the call is remembered for the properties
CacheSet(key, result, expiration) ==
    /\ cache' = InMemorySet(cache, key, result, expiration, now)
    /\ last' = [op |-> "Set", key |-> key, result |-> result,
                expiration |-> expiration, at |-> now, get |-> NoGet]
    /\ UNCHANGED <<providerStatus, now, goroutines, healthCheckers, redis, otherVars>>

\* cache.Get(ctx, key) of the key written last
CacheGet ==
    /\ last.op \in {"Set", "Get"}
    /\ LET got == InMemoryGet(cache, last.key, now)
       IN /\ cache' = got.data
          /\ last' = [last EXCEPT !.op = "Get",
                        !.get = [key |-> last.key, result |-> got.result, at |-> now]]
    /\ UNCHANGED <<providerStatus, now, goroutines, healthCheckers, redis, otherVars>>

\* cache.Delete(ctx, key)
CacheDelete(key) ==
    /\ key \in DOMAIN cache
    /\ cache' = InMemoryDelete(cache, key)
    /\ last' = Idle
    /\ UNCHANGED <<providerStatus, now, goroutines, healthCheckers, redis, otherVars>>

CacheTick == Advance(CacheTickStep, MaxCacheTime)

NextCache ==
    \/ \E key \in CacheKeys, result \in CacheEntries, expiration \in Expirations :
            CacheSet(key, result, expiration)
    \/ CacheGet
    \/ \E key \in CacheKeys : CacheDelete(key)
    \/ CacheTick

SpecCache == Init /\ [][NextCache]_vars

----------------------------------------------------------------------------
(* The health tracker on its own: callers report outcomes, checks read them *)

TrackedPairs == {<<"openai", "gpt-3.5-turbo">>, <<"openai", "gpt-4">>}
\* (healthy, err) as passed by callers: success with nil, failure with or without error
Outcomes == {<<TRUE, NoError>>, <<FALSE, "Test error">>, <<FALSE, NoError>>}

\* UpdateProviderStatus(provider, model, healthy, err); the call and the record
\* it found are remembered for the properties
TrackerUpdate(pair, outcome) ==
    /\ providerStatus' = UpdateProviderStatus(providerStatus, pair[1], pair[2],
                                              outcome[1], outcome[2], now)
    /\ CountWithin(providerStatus')
    /\ last' = [op |-> "UpdateProviderStatus", key |-> StatusKey(pair[1], pair[2]),
                healthy |-> outcome[1], err |-> outcome[2], at |-> now,
                before |-> IF StatusKey(pair[1], pair[2]) \in DOMAIN providerStatus
                           THEN providerStatus[StatusKey(pair[1], pair[2])] ELSE Nil]
    /\ UNCHANGED <<cache, now, goroutines, healthCheckers, redis, otherVars>>

NextTracker ==
    \/ \E pair \in TrackedPairs, outcome \in Outcomes : TrackerUpdate(pair, outcome)
    \/ Tick

SpecTracker == Init /\ [][NextTracker]_vars

----------------------------------------------------------------------------
(* Unary and streaming requests over the lifetime of cache entries *)

LongRequests ==
    [Prompt : Prompts, TaskType : TaskTypes, Pin : {<<"", "">>, <<"openai", "gpt-4">>},
     Weights : {NoWeights}, Ctx : {NoCtx}]

NextLong ==
    \/ \E req \in LongRequests, up \in UpSets, upstream \in Upstreams :
            AIQuery(TRUE, TRUE, req, up, upstream)
    \/ \E bound \in BOOLEAN, req \in LongRequests, up \in UpSets, upstream \in Upstreams :
            AIQueryStream(bound, req, up, upstream)
    \/ CacheTick

SpecLong == Init /\ [][NextLong]_vars

----------------------------------------------------------------------------
(* The request pipeline under caller deadlines, cancellation and slow upstreams *)

TimedCtxs ==
    {[HasDeadline |-> d[1], Deadline |-> d[2], Cancels |-> c[1], CancelAt |-> c[2]] :
        d \in {<<FALSE, 0>>, <<TRUE, 20>>}, c \in {<<FALSE, 0>>, <<TRUE, 10>>}}

TimedRequests ==
    [Prompt : Prompts, TaskType : TaskTypes, Pin : {<<"", "">>, <<"openai", "gpt-4">>},
     Weights : {NoWeights}, Ctx : TimedCtxs]

\* the upstream reacts quickly, or hangs beyond the attempt's timeout
TimedUpstreams == {[Content |-> <<"hi">>, Cost |-> 2, Delay |-> d] : d \in {2, 40}}

NextTimed ==
    \/ \E req \in TimedRequests, up \in UpSets, upstream \in TimedUpstreams :
            AIQuery(TRUE, TRUE, req, up, upstream)
    \/ Tick

SpecTimed == Init /\ [][NextTimed]_vars

----------------------------------------------------------------------------
(* Goroutines inside the tracker and the in-memory cache. Neither map is
   guarded by a lock: a map read or write lasts from the step that starts it
   to the step that ends it, and the statements of one call interleave with
   those of the others. *)

RaceKey == StatusKey("openai", "gpt-4")
RaceCacheKey == GenerateCacheKey(<<"hello">>, <<"code-generation">>, <<"openai">>, <<"gpt-4">>)
RaceCacheEntry ==
    [Response |-> [Content |-> <<"hi">>], CreatedAt |-> 0, Provider |-> "openai",
     Model |-> "gpt-4", CachedKey |-> RaceCacheKey]

\* update: UpdateProviderStatus("openai", "gpt-4", false, err); check:
\* IsProviderHealthy("openai", "gpt-4"); set / get: cache.Set / cache.Get
Operations == {"update", "check", "set", "get"}

TrackerReading(g) == goroutines[g].pc = "lookup"
TrackerWriting(g) == goroutines[g].pc = "storing"
CacheReading(g) == goroutines[g].pc = "cache_lookup"
CacheWriting(g) == goroutines[g].pc \in {"cache_storing", "cache_deleting"}

\* g is inside an access to a map that another goroutine is inside too, one
\* of the two writing
Overlaps(g) ==
    \E h \in Goroutines \ {g} :
        \/ TrackerWriting(g) /\ (TrackerWriting(h) \/ TrackerReading(h))
        \/ TrackerReading(g) /\ TrackerWriting(h)
        \/ CacheWriting(g) /\ (CacheWriting(h) \/ CacheReading(h))
        \/ CacheReading(g) /\ CacheWriting(h)

At(g, pc) == goroutines[g].pc = pc
Goto(g, pc) == goroutines' = [goroutines EXCEPT ![g].pc = pc]

\* a goroutine enters one of the operations
Start(g, op) ==
    /\ At(g, "idle")
    /\ goroutines' = [goroutines EXCEPT
                         ![g].op = op,
                         ![g].pc = CASE op \in {"update", "check"} -> "lookup"
                                     [] op = "set" -> "cache_stamp"
                                     [] op = "get" -> "cache_lookup"]
    /\ UNCHANGED <<providerStatus, cache, now, last, healthCheckers, redis, otherVars>>

\* status, exists := providerStatus[key] returns
LookupDone(g) ==
    /\ At(g, "lookup")
    /\ goroutines' = [goroutines EXCEPT
                         ![g].ptr = IF RaceKey \in DOMAIN providerStatus
                                    THEN "shared" ELSE "nil",
                         ![g].pc = IF goroutines[g].op = "check" THEN "done"
                                   ELSE IF RaceKey \in DOMAIN providerStatus
                                   THEN "stamp" ELSE "create"]
    /\ UNCHANGED <<providerStatus, cache, now, last, healthCheckers, redis, otherVars>>

\* status = &ProviderStatus{...}; providerStatus[key] = status begins
Create(g) ==
    /\ At(g, "create")
    /\ Goto(g, "storing")
    /\ UNCHANGED <<providerStatus, cache, now, last, healthCheckers, redis, otherVars>>

\* providerStatus[key] = status ends: the map now points to g's record, and
\* the goroutines holding the record it replaced update a record that the
\* map no longer reaches
StoreDone(g) ==
    /\ At(g, "storing")
    /\ providerStatus' =
          [k \in DOMAIN providerStatus \cup {RaceKey} |->
              IF k = RaceKey
              THEN [Name |-> "openai", Model |-> "gpt-4", Healthy |-> TRUE,
                    LastCheck |-> now, ErrorCount |-> 0, LastError |-> ""]
              ELSE providerStatus[k]]
    /\ goroutines' = [h \in Goroutines |->
                         IF h = g
                         THEN [goroutines[h] EXCEPT !.ptr = "shared", !.pc = "stamp"]
                         ELSE IF goroutines[h].ptr = "shared"
                         THEN [goroutines[h] EXCEPT !.ptr = "orphan"]
                         ELSE goroutines[h]]
    /\ UNCHANGED <<cache, now, last, healthCheckers, redis, otherVars>>

\* a write through g's status pointer: it reaches the map's record only while
\* the map still points to it
WriteStatus(g, rec) ==
    IF goroutines[g].ptr = "shared"
    THEN providerStatus' = [providerStatus EXCEPT ![RaceKey] = rec]
    ELSE UNCHANGED providerStatus

\* status.LastCheck = time.Now()
Stamp(g) ==
    /\ At(g, "stamp")
    /\ WriteStatus(g, [providerStatus[RaceKey] EXCEPT !.LastCheck = now])
    /\ Goto(g, "load")
    /\ UNCHANGED <<cache, now, last, healthCheckers, redis, otherVars>>

\* status.ErrorCount++ reads the counter
Load(g) ==
    /\ At(g, "load")
    /\ goroutines' = [goroutines EXCEPT
                         ![g].tmp = IF goroutines[g].ptr = "shared"
                                    THEN providerStatus[RaceKey].ErrorCount ELSE 0,
                         ![g].pc = "store"]
    /\ UNCHANGED <<providerStatus, cache, now, last, healthCheckers, redis, otherVars>>

\* status.ErrorCount++ writes the counter
Store(g) ==
    /\ At(g, "store")
    /\ WriteStatus(g, [providerStatus[RaceKey] EXCEPT !.ErrorCount = goroutines[g].tmp + 1])
    /\ Goto(g, "mark")
    /\ UNCHANGED <<cache, now, last, healthCheckers, redis, otherVars>>

\* status.LastError = err.Error(); if status.ErrorCount > 5 { status.Healthy = false }
Mark(g) ==
    /\ At(g, "mark")
    /\ WriteStatus(g, [providerStatus[RaceKey] EXCEPT
                          !.LastError = "upstream error",
                          !.Healthy = IF providerStatus[RaceKey].ErrorCount > ErrorThreshold
                                      THEN FALSE ELSE @])
    /\ Goto(g, "done")
    /\ UNCHANGED <<cache, now, last, healthCheckers, redis, otherVars>>

\* result.CreatedAt = time.Now(); m.data[key] = result begins
CacheStamp(g) ==
    /\ At(g, "cache_stamp")
    /\ goroutines' = [goroutines EXCEPT ![g].tmp = now, ![g].pc = "cache_storing"]
    /\ UNCHANGED <<providerStatus, cache, now, last, healthCheckers, redis, otherVars>>

\* m.data[key] = result ends
CacheStoreDone(g) ==
    /\ At(g, "cache_storing")
    /\ cache' = InMemorySet(cache, RaceCacheKey, RaceCacheEntry, CacheExpiration,
                            goroutines[g].tmp)
    /\ Goto(g, "done")
    /\ UNCHANGED <<providerStatus, now, last, healthCheckers, redis, otherVars>>

\* result, exists := m.data[key] returns; an expired entry is then deleted
CacheLookupDone(g) ==
    /\ At(g, "cache_lookup")
    /\ Goto(g, IF RaceCacheKey \in DOMAIN cache
                  /\ ~(now - cache[RaceCacheKey].CreatedAt < CacheExpiration)
               THEN "cache_deleting" ELSE "done")
    /\ UNCHANGED <<providerStatus, cache, now, last, healthCheckers, redis, otherVars>>

\* delete(m.data, key) ends
CacheDeleteDone(g) ==
    /\ At(g, "cache_deleting")
    /\ cache' = InMemoryDelete(cache, RaceCacheKey)
    /\ Goto(g, "done")
    /\ UNCHANGED <<providerStatus, now, last, healthCheckers, redis, otherVars>>

\* the runtime detects the unsynchronised map access and aborts the process
\* (fatal error: concurrent map writes / concurrent map read and map write)
Crash(g) ==
    /\ Overlaps(g)
    /\ goroutines' = [h \in Goroutines |-> [goroutines[h] EXCEPT !.pc = "crashed"]]
    /\ UNCHANGED <<providerStatus, cache, now, last, healthCheckers, redis, otherVars>>

\* cache entries age
RaceTick == Advance(CacheExpiration, CacheExpiration)

NextRace ==
    \/ \E g \in Goroutines, op \in Operations : Start(g, op)
    \/ \E g \in Goroutines :
          \/ LookupDone(g)
          \/ Create(g)
          \/ StoreDone(g)
          \/ Stamp(g)
          \/ Load(g)
          \/ Store(g)
          \/ Mark(g)
          \/ CacheStamp(g)
          \/ CacheStoreDone(g)
          \/ CacheLookupDone(g)
          \/ CacheDeleteDone(g)
          \/ Crash(g)
    \/ RaceTick

SpecRace == Init /\ [][NextRace]_vars

----------------------------------------------------------------------------
(* The request pipeline over the cache backends main can configure: the
   in-memory map, a Redis server that answers or not from one call to the
   next, and a Redis server that did not answer NewRedisCache's ping *)

InitStartup ==
    \/ Started("memory", TRUE)
    \/ \E reachable \in BOOLEAN : Started("redis", reachable)

\* the connection to the Redis server is lost or comes back
RedisFlip ==
    /\ cacheBackend = "redis"
    /\ redis' = [redis EXCEPT !.up = ~@]
    /\ UNCHANGED <<providerStatus, cache, now, last, goroutines, healthCheckers,
                   otherVars>>

NextStartup ==
    \/ \E req \in LongRequests, up \in UpSets, upstream \in Upstreams :
            AIQuery(TRUE, TRUE, req, up, upstream)
    \/ RedisFlip
    \/ CacheTick

SpecStartup == InitStartup /\ [][NextStartup]_vars

----------------------------------------------------------------------------
(* GenerateCacheKey on pairs of argument tuples. A string is the sequence of
   its pieces; the piece ":" is the colon character *)

KeyPrompts == {<<"a">>, <<"b">>, <<"a", ":", "b">>, <<"b", ":", "c">>}
KeyTaskTypes == {<<"b">>, <<"c">>, <<"b", ":", "c">>, <<>>}
KeyNames == {<<>>, <<"c">>}
KeyTuples == KeyPrompts \X KeyTaskTypes \X KeyNames \X KeyNames

InitKey ==
    /\ providerStatus = <<>>
    /\ cache = <<>>
    /\ now = 0
    /\ \E a \in KeyTuples, b \in KeyTuples : last = [op |-> "arguments", a |-> a, b |-> b]
    /\ goroutines = [g \in Goroutines |-> NotStarted]
    /\ healthCheckers = 0
    /\ cacheBackend = InitializeCache("memory", TRUE)
    /\ redis = NoRedis
    /\ lb = NewBalancer
    /\ store = NoBuckets
    /\ idempotencyCache = <<>>
    /\ downstream = NothingServed

\* GenerateCacheKey is called on both tuples
KeyCalls ==
    /\ last.op = "arguments"
    /\ last' = [op |-> "GenerateCacheKey", a |-> last.a, b |-> last.b,
                keyA |-> GenerateCacheKey(last.a[1], last.a[2], last.a[3], last.a[4]),
                keyB |-> GenerateCacheKey(last.b[1], last.b[2], last.b[3], last.b[4])]
    /\ UNCHANGED <<providerStatus, cache, now, goroutines, healthCheckers, redis,
                   otherVars>>

NextKey == KeyCalls

SpecKey == InitKey /\ [][NextKey]_vars

----------------------------------------------------------------------------
(* The two health checks of the package: the tracker that routing asks, and
   a LoadBalancer asked to execute a task *)

BalancerProviders == {"openai", "claude", "gemini"}
\* what the calls of task() return, one after the other
Tasks == [1..MaxRetries -> {NoError, "task error"}]
BalancerPair == <<"openai", "gpt-4">>

\* one tick of lb.healthChecker
BalancerCheck ==
    /\ lb' = checkHealth(lb, now)
    /\ last' = [op |-> "checkHealth", at |-> now]
    /\ UNCHANGED <<providerStatus, cache, now, goroutines, healthCheckers, redis,
                   cacheBackend, store, idempotencyCache, downstream>>

\* lb.ExecuteWithRetry(ctx, provider, task); the call is remembered for the
\* properties, with whether lb.status held a record of the provider
BalancerExecute(provider, task) ==
    LET r == ExecuteWithRetry(lb, provider, task, now)
    IN /\ lb' = r.lb
       /\ last' = [op |-> "ExecuteWithRetry", provider |-> provider, task |-> task,
                   recorded |-> provider \in DOMAIN lb.status,
                   calls |-> r.calls, err |-> r.err, slept |-> r.slept]
       /\ UNCHANGED <<providerStatus, cache, now, goroutines, healthCheckers, redis,
                      cacheBackend, store, idempotencyCache, downstream>>

NextBalancer ==
    \/ BalancerCheck
    \/ \E provider \in BalancerProviders, task \in Tasks : BalancerExecute(provider, task)
    \/ \E outcome \in Outcomes : TrackerUpdate(BalancerPair, outcome)
    \/ Tick

SpecBalancer == Init /\ [][NextBalancer]_vars

----------------------------------------------------------------------------
(* The middleware of the protected routes: RateLimitMiddleware(Limit), then
   IdempotencyMiddleware, then the route's handler. Each request runs in its
   own goroutine; the closures' maps and buckets are shared and not locked, so
   the statements of the requests interleave. A goroutine's ptr is the bucket
   it holds, its tmp the value it read last. The two middlewares share no
   state: one specification follows the requests through the rate limiter up
   to its c.Next(), the other follows them from there on. *)

ClientIP == "203.0.113.7"
\* method and Idempotency-Key header of a request
HttpRequests == {"POST key", "POST", "GET key"}
Method(request) == IF request = "GET key" THEN "GET" ELSE "POST"
IdempotencyKey(request) == IF request = "POST" THEN "" ELSE "key"

\* the rest of the process, which the middleware leaves alone
pipelineVars == <<providerStatus, cache, last, healthCheckers, redis, cacheBackend, lb>>

\* g returns: its locals are gone
Return(g) == goroutines' = [goroutines EXCEPT ![g].pc = "done", ![g].ptr = "nil", ![g].tmp = 0]

\* a request arrives and enters RateLimitMiddleware
Arrive(g, request) ==
    /\ At(g, "idle")
    /\ goroutines' = [goroutines EXCEPT ![g].op = request, ![g].pc = "rate_lookup"]
    /\ UNCHANGED <<now, store, idempotencyCache, downstream, pipelineVars>>

\* a request that RateLimitMiddleware passed on enters IdempotencyMiddleware
Enter(g, request) ==
    /\ At(g, "idle")
    /\ goroutines' = [goroutines EXCEPT ![g].op = request, ![g].pc = "idempotency_lookup"]
    /\ UNCHANGED <<now, store, idempotencyCache, downstream, pipelineVars>>

\* now := time.Now().Unix(); b, ok := store[key]; if !ok || now >= b.reset
RateLookup(g) ==
    /\ At(g, "rate_lookup")
    /\ goroutines' =
          IF \/ ClientIP \notin DOMAIN store.map
             \/ now >= store.buckets[store.map[ClientIP]].reset
          THEN [goroutines EXCEPT ![g].tmp = now, ![g].pc = "rate_create"]
          ELSE [goroutines EXCEPT ![g].ptr = store.map[ClientIP], ![g].pc = "rate_check"]
    /\ UNCHANGED <<now, store, idempotencyCache, downstream, pipelineVars>>

\* store[key] = &bucket{count: 0, reset: now + 60}; b = store[key]
RateCreate(g) ==
    /\ At(g, "rate_create")
    /\ store' = [map |-> [k \in {ClientIP} |-> Len(store.buckets) + 1],
                 buckets |-> Append(store.buckets,
                                    [count |-> 0, reset |-> goroutines[g].tmp + RateWindow])]
    /\ goroutines' = [goroutines EXCEPT ![g].ptr = Len(store.buckets) + 1,
                                        ![g].pc = "rate_check"]
    /\ UNCHANGED <<now, idempotencyCache, downstream, pipelineVars>>

\* if b.count >= limitPerMinute { 429; return }
RateCheck(g) ==
    /\ At(g, "rate_check")
    /\ IF store.buckets[goroutines[g].ptr].count >= Limit
       THEN /\ downstream' = [downstream EXCEPT !.rejected = @ + 1]
            /\ Return(g)
       ELSE /\ Goto(g, "rate_load")
            /\ UNCHANGED downstream
    /\ UNCHANGED <<now, store, idempotencyCache, pipelineVars>>

\* b.count++ reads the counter
RateLoad(g) ==
    /\ At(g, "rate_load")
    /\ goroutines' = [goroutines EXCEPT ![g].tmp = store.buckets[goroutines[g].ptr].count,
                                        ![g].pc = "rate_store"]
    /\ UNCHANGED <<now, store, idempotencyCache, downstream, pipelineVars>>

\* b.count++ writes the counter; c.Next() enters IdempotencyMiddleware
RateStore(g) ==
    /\ At(g, "rate_store")
    /\ store' = [store EXCEPT !.buckets[goroutines[g].ptr].count = goroutines[g].tmp + 1]
    /\ downstream' = [downstream EXCEPT !.admitted = Tallied(@, now)]
    /\ goroutines' = [goroutines EXCEPT ![g].pc = "idempotency_lookup", ![g].ptr = "nil",
                                        ![g].tmp = 0]
    /\ UNCHANGED <<now, idempotencyCache, pipelineVars>>

\* the method and header tests; e, ok := cache[key]; a recorded response
\* younger than 5 minutes is written back, otherwise c.Next()
IdempotencyLookup(g) ==
    /\ At(g, "idempotency_lookup")
    /\ IF /\ Method(goroutines[g].op) = "POST"
          /\ IdempotencyKey(goroutines[g].op) # ""
          /\ IdempotencyKey(goroutines[g].op) \in DOMAIN idempotencyCache
          /\ now - idempotencyCache[IdempotencyKey(goroutines[g].op)].ts < IdempotencyWindow
       THEN /\ downstream' = [downstream EXCEPT !.replayed = @ + 1]
            /\ Return(g)
       ELSE /\ Goto(g, "handler")
            /\ UNCHANGED downstream
    /\ UNCHANGED <<now, store, idempotencyCache, pipelineVars>>

\* c.Next(): the route's handler runs and writes its response
Handle(g) ==
    /\ At(g, "handler")
    /\ downstream' = [downstream EXCEPT !.executed = Tallied(@, <<goroutines[g].op, now>>)]
    /\ Goto(g, IF Method(goroutines[g].op) = "POST" /\ IdempotencyKey(goroutines[g].op) # ""
               THEN "idempotency_store" ELSE "done")
    /\ UNCHANGED <<now, store, idempotencyCache, pipelineVars>>

\* cache[key] = &entry{status: rw.status, body: rw.buf, ts: time.Now()}
IdempotencyStore(g) ==
    /\ At(g, "idempotency_store")
    /\ idempotencyCache' =
          [k \in DOMAIN idempotencyCache \cup {IdempotencyKey(goroutines[g].op)} |->
              IF k = IdempotencyKey(goroutines[g].op)
              THEN [status |-> 200, body |-> <<"response">>, ts |-> now]
              ELSE idempotencyCache[k]]
    /\ Return(g)
    /\ UNCHANGED <<now, store, downstream, pipelineVars>>

\* g is about to write a map that h is about to read or write
MapRace(g, h) ==
    \/ At(g, "rate_create") /\ (At(h, "rate_create") \/ At(h, "rate_lookup"))
    \/ At(g, "idempotency_store")
          /\ (At(h, "idempotency_store") \/ At(h, "idempotency_lookup"))

\* the two accesses overlap and the runtime aborts the process
\* (fatal error: concurrent map writes / concurrent map read and map write)
MiddlewareCrash(g) ==
    /\ \E h \in Goroutines \ {g} : MapRace(g, h)
    /\ goroutines' = [h \in Goroutines |->
                         [goroutines[h] EXCEPT !.pc = "crashed", !.ptr = "nil", !.tmp = 0]]
    /\ UNCHANGED <<now, store, idempotencyCache, downstream, pipelineVars>>

MiddlewareTick == Advance(MiddlewareTickStep, MaxMiddlewareTime)

\* the limiter reads nothing of a request but its client IP
NextRateLimit ==
    \/ \E g \in Goroutines : Arrive(g, "POST")
    \/ \E g \in Goroutines :
          \/ RateLookup(g)
          \/ RateCreate(g)
          \/ RateCheck(g)
          \/ RateLoad(g)
          \/ RateStore(g)
          \/ MiddlewareCrash(g)
    \/ MiddlewareTick

SpecRateLimit == Init /\ [][NextRateLimit]_vars

NextIdempotency ==
    \/ \E g \in Goroutines, request \in HttpRequests : Enter(g, request)
    \/ \E g \in Goroutines :
          \/ IdempotencyLookup(g)
          \/ Handle(g)
          \/ IdempotencyStore(g)
          \/ MiddlewareCrash(g)
    \/ MiddlewareTick

SpecIdempotency == Init /\ [][NextIdempotency]_vars

----------------------------------------------------------------------------
(* Properties *)

Handled == last.op = "AIQuery"
Answered == Handled /\ last.status = 200
Pinned(req) == req.Pin[1] # "" /\ req.Pin[2] # ""
Routings == Prompts \X AllTaskTypes \X AllPins
Route(x) == RouteRequestWithFallback(x[1], x[2], x[3][1], x[3][2]).result
RouteOnly(x) == RouteRequest(x[1], x[2], x[3][1], x[3][2]).result
Age(key) == now - providerStatus[key].LastCheck
InList(seq, name, model) ==
    \E i \in 1..Len(seq) : seq[i].Name = name /\ seq[i].Model = model

\* C1: whatever is asked, routing never returns as primary a (provider, model)
\* that IsProviderHealthy reports unhealthy at that moment.
C1_PrimaryIsHealthy ==
    \A x \in Routings :
        Route(x).err = NoError => IsProviderHealthy(Route(x).Provider, Route(x).Model)

\* C2: a pair with 5 or more consecutive failures (no success in between) is
\* reported unhealthy by every check made within Q of its last update.
C2_OpenAfterFiveFailures ==
    \A key \in DOMAIN providerStatus :
        (providerStatus[key].ErrorCount >= 5 /\ Age(key) <= Quarantine)
            => ~IsProviderHealthy(providerStatus[key].Name, providerStatus[key].Model)

\* C3 as stated: once at least Q has passed since the last update of a pair,
\* IsProviderHealthy returns true for it.
C3_HealthyOnceQuarantineReached ==
    \A key \in DOMAIN providerStatus :
        Age(key) >= Quarantine
            => IsProviderHealthy(providerStatus[key].Name, providerStatus[key].Model)

\* C3 amended: once more than Q has passed since the last update of a pair,
\* IsProviderHealthy returns true for it and routing treats it as eligible: it
\* is listed among the fallbacks of every task type that registers it, and a
\* request pinning it (cache miss) gets it as primary.
C3_HealthyAfterQuarantine ==
    \A key \in DOMAIN providerStatus :
        Age(key) > Quarantine =>
            /\ IsProviderHealthy(providerStatus[key].Name, providerStatus[key].Model)
            /\ \A t \in AllTaskTypes :
                  InList(ProvidersFor(t), providerStatus[key].Name, providerStatus[key].Model)
                     => InList(GetFallbackProviders(t, "", ""),
                               providerStatus[key].Name, providerStatus[key].Model)
            /\ \A t \in DOMAIN availableProviders, p \in Prompts :
                  InList(availableProviders[t], providerStatus[key].Name,
                         providerStatus[key].Model)
                     => RouteAfterCacheGet(p, t, providerStatus[key].Name,
                           providerStatus[key].Model,
                           [result |-> Nil, data |-> cache]).result.Reasoning
                        = PinnedReasoning

\* C3 witness: an Open pair whose last update is more than Q ago.
C3_Witness ==
    \E key \in DOMAIN providerStatus :
        /\ ~providerStatus[key].Healthy
        /\ providerStatus[key].ErrorCount > ErrorThreshold
        /\ Age(key) > Quarantine

FailureMetrics == {i \in 1..Len(last.metrics) : last.metrics[i].counter = "failed_requests_total"}
SuccessMetrics == {i \in 1..Len(last.metrics) : last.metrics[i].counter = "requests_total"}

\* C4: when the first k candidates fail and candidate k+1 succeeds, the caller
\* gets candidate k+1's response and k+1 metrics are emitted: k failures and
\* one success.
C4_MetricPerAttempt ==
    (Answered /\ ~last.response.CacheHit) =>
        /\ last.response.Provider = last.attempts[Len(last.attempts)].Provider
        /\ last.response.Model = last.attempts[Len(last.attempts)].Model
        /\ Len(last.metrics) = Len(last.attempts)
        /\ Cardinality(FailureMetrics) = Len(last.attempts) - 1
        /\ Cardinality(SuccessMetrics) = 1

\* C5: every request handled by AIQuery emits exactly one terminal metric.
C5_OneTerminalMetric ==
    Handled => Len(last.metrics) = 1

LookupKey(req) ==
    GenerateCacheKey(req.Prompt, Str(req.TaskType), Str(req.Pin[1]), Str(req.Pin[2]))

CacheHitAnswer == Answered /\ last.response.CacheHit

\* C6: a request served from the cache returns the content that was cached,
\* with cache_hit = true and cost = 0, counts one cache hit and calls no adapter.
C6_CacheHitReturnsCachedContent ==
    CacheHitAnswer =>
        /\ LookupKey(last.req) \in DOMAIN cache
        /\ last.response.Content = cache[LookupKey(last.req)].Response.Content
        /\ last.response.Cost = 0
        /\ Len(last.metrics) = 1
        /\ last.metrics[1].cache_hits_total = 1
        /\ last.attempts = <<>>

\* C7: Get after Set(key, R, ttl) returns R while less than ttl has elapsed
\* since the write and a miss once ttl has elapsed.
C7_PerEntryTTL ==
    last.op = "Get" =>
        IF last.get.at - last.at < last.expiration
        THEN last.get.result = [last.result EXCEPT !.CreatedAt = last.at]
        ELSE last.get.result = Nil

NoPrimaryAmong(r) == r.err = NoError => ~InList(r.Fallbacks, r.Provider, r.Model)

\* C8: no routing result, of RouteRequest or of RouteRequestWithFallback, on
\* any path, for any task type, pin and health state, lists its primary among
\* its fallbacks.
C8_FallbacksExcludePrimary ==
    /\ \A x \in Routings : NoPrimaryAmong(Route(x)) /\ NoPrimaryAmong(RouteOnly(x))
    /\ (Handled /\ last.routing # Nil) => NoPrimaryAmong(last.routing)

\* C8 witness: a request was routed through the cache-hit path and got a
\* non-empty fallback list, while some pair is Open.
C8_Witness ==
    /\ Handled /\ last.routing # Nil
    /\ last.routing.Reasoning = CacheHitReasoning
    /\ Len(last.routing.Fallbacks) > 0
    /\ \E x \in Routings : Route(x).Reasoning = PinnedReasoning /\ Len(Route(x).Fallbacks) > 0
    /\ \E key \in DOMAIN providerStatus : ~providerStatus[key].Healthy

\* C9: the response to a request that pins (provider, model) comes from the
\* pin, unless the pin was ineligible and Reasoning records the substitution
\* (it names the pin or says that it was overridden).
C9_NoSilentSubstitution ==
    (Answered /\ Pinned(last.req)
       /\ (last.response.Provider # last.req.Pin[1] \/ last.response.Model # last.req.Pin[2]))
    => /\ ~last.pinEligible
       /\ \E i \in 1..Len(last.routing.Reasoning) :
             last.routing.Reasoning[i] \in
                 {"override", "overridden", "substituted", "instead of", "unavailable",
                  last.req.Pin[1], last.req.Pin[2]}

\* C10: a request whose weights do not sum to 1.0 +- 0.01 (100 +- 1 in
\* hundredths) fails with InvalidWeights before any routing and before any
\* adapter call.
C10_InvalidWeightsRejected ==
    (/\ Handled
     /\ last.req.Weights # NoWeights
     /\ LET w == last.req.Weights
        IN w[1] + w[2] + w[3] + w[4] < 99 \/ w[1] + w[2] + w[3] + w[4] > 101) =>
        /\ last.error = "InvalidWeights"
        /\ last.routing = Nil
        /\ last.attempts = <<>>

\* a descriptor is eligible for a prompt iff the tracker reports it healthy and
\* the prompt's token estimate fits its MaxTokens
Eligible(d, prompt) ==
    /\ IsProviderHealthy(d.Name, d.Model)
    /\ StrLen(prompt) \div TokenChars <= d.MaxTokens

NoneEligible(prompt, taskType) ==
    \A i \in 1..Len(ProvidersFor(taskType)) : ~Eligible(ProvidersFor(taskType)[i], prompt)

\* C11: when no descriptor registered for the task type is eligible (all
\* unhealthy, or all too small for the prompt's token estimate), routing fails
\* with NoSuitableProvider and returns no primary.
C11_NoSuitableProvider ==
    \A p \in RoutedPrompts, t \in DOMAIN availableProviders :
        NoneEligible(p, t) =>
            /\ RouteRequestWithFallback(p, t, "", "").result.err = "NoSuitableProvider"
            /\ RouteRequest(p, t, "", "").result.err = "NoSuitableProvider"

RECURSIVE TookUntil(_, _)
\* seconds spent in the first n attempts
TookUntil(attempts, n) ==
    IF n = 0 THEN 0 ELSE attempts[n].took + TookUntil(attempts, n - 1)

Elapsed == TookUntil(last.attempts, Len(last.attempts))
Executed == Handled /\ last.attempts # <<>>
CacheWritten == Answered /\ ~last.response.CacheHit

\* C12: with a caller deadline D the executor's total elapsed time over all
\* attempts never exceeds D, no attempt starts once D has elapsed, and a
\* request that ran out of time fails with DeadlineExceeded.
C12_DeadlineBound ==
    (Executed /\ last.req.Ctx.HasDeadline) =>
        /\ Elapsed <= last.req.Ctx.Deadline
        /\ \A i \in 1..Len(last.attempts) :
              TookUntil(last.attempts, i - 1) < last.req.Ctx.Deadline
        /\ (~Answered /\ Elapsed >= last.req.Ctx.Deadline)
              => last.error = "DeadlineExceeded"

\* C13: once the caller's context is cancelled the executor aborts the
\* attempt in flight, starts no further attempt, writes nothing to the cache
\* and propagates the cancellation.
C13_CancellationStops ==
    (Executed /\ last.req.Ctx.Cancels /\ last.req.Ctx.CancelAt <= Elapsed) =>
        /\ Elapsed <= last.req.Ctx.CancelAt
        /\ \A i \in 1..Len(last.attempts) :
              TookUntil(last.attempts, i - 1) < last.req.Ctx.CancelAt
        /\ ~CacheWritten
        /\ last.error = "context canceled"

\* the candidates of a routing result: [primary] ++ fallbacks
Candidates(r) == <<[Name |-> r.Provider, Model |-> r.Model]>> \o r.Fallbacks

\* the (provider, model) pairs of the attempts made
AttemptPairs(attempts) ==
    [i \in 1..Len(attempts) |-> [Name |-> attempts[i].Provider, Model |-> attempts[i].Model]]

NoPairTwice(seq) ==
    \A i, j \in 1..Len(seq) :
        (seq[i].Name = seq[j].Name /\ seq[i].Model = seq[j].Model) => i = j

\* C14: within one request no (provider, model) is invoked more than once:
\* the attempts follow the candidates [primary] ++ fallbacks in order, one
\* attempt each, every attempt but the last one failed, and no candidate list
\* routing can return names a pair twice.
C14_NoCandidateTwice ==
    /\ \A x \in Routings :
          Route(x).err = NoError
             => NoPairTwice(Candidates(Route(x)))
    /\ Executed =>
          /\ NoPairTwice(AttemptPairs(last.attempts))
          /\ Len(last.attempts) <= Len(Candidates(last.routing))
          /\ \A i \in 1..Len(last.attempts) :
                /\ last.attempts[i].Provider = Candidates(last.routing)[i].Name
                /\ last.attempts[i].Model = Candidates(last.routing)[i].Model
                /\ i < Len(last.attempts) => last.attempts[i].err # NoError

\* C14 witness: the adapter of the first candidate was called and failed, and
\* the executor went on to a second candidate.
C14_Witness ==
    /\ Executed
    /\ Len(last.attempts) >= 2
    /\ last.attempts[1].called
    /\ last.attempts[1].err # NoError

\* RouteRequestWithFallback on the cache map `data`
RouteOn(data, x) ==
    AddFallbacks(x[2],
        RouteAfterCacheGet(x[1], x[2], x[3][1], x[3][2],
            InMemoryGet(data,
                GenerateCacheKey(x[1], Str(x[2]), Str(x[3][1]), Str(x[3][2])), now)))

\* the second of two invocations runs on the map the first one left behind
RouteAgain(first, x) == RouteOn(first.data, x).result

SameRouting(a, b) ==
    /\ a.err = b.err
    /\ a.err = NoError =>
          /\ a.Provider = b.Provider
          /\ a.Model = b.Model
          /\ a.Fallbacks = b.Fallbacks

SameTwice(first, x) == SameRouting(first.result, RouteAgain(first, x))

\* findSpecificProvider with the iteration order of `range availableProviders`
\* made explicit: the descriptor found when the task type is unknown
RECURSIVE FindInOrder(_, _, _)
FindInOrder(order, name, model) ==
    IF order = <<>> THEN Nil
    ELSE LET hits == SelectSeq(availableProviders[Head(order)],
                               LAMBDA d : d.Name = name /\ d.Model = model)
         IN IF hits # <<>> THEN Head(hits) ELSE FindInOrder(Tail(order), name, model)

IterationOrders ==
    {o \in [1..Cardinality(DOMAIN availableProviders) -> DOMAIN availableProviders] :
        \A i, j \in DOMAIN o : o[i] = o[j] => i = j}

\* RouteRequest only asks whether findSpecificProvider found a descriptor, and
\* that does not depend on the iteration order
FoundInEveryOrder ==
    \A o \in IterationOrders, pin \in AllPins, t \in AllTaskTypes \ DOMAIN availableProviders :
        (FindInOrder(o, pin[1], pin[2]) # Nil) = findSpecificProvider(pin[1], pin[2], t)

\* C15: for fixed descriptors, health records, cache contents, prompt, task
\* type and pin, two invocations of RouteRequestWithFallback return the same
\* primary and the same fallback list in the same order.
C15_RoutingDeterministic ==
    /\ FoundInEveryOrder
    /\ \A x \in Routings : SameTwice(RouteOn(cache, x), x)

\* C15 witness: the first invocation evicts an expired cache entry, so the
\* second one runs on a changed map, while another pair is Open.
C15_Witness ==
    /\ \E x \in Routings : RouteOn(cache, x).data # cache
    /\ \E key \in DOMAIN providerStatus :
          ~IsProviderHealthy(providerStatus[key].Name, providerStatus[key].Model)

Updated == last.op = "UpdateProviderStatus"

\* the record as a first, successful update leaves it
CreatedBySuccess(rec) ==
    rec # Nil /\ rec.Healthy /\ rec.ErrorCount = 0 /\ rec.LastError = ""

\* C16: the first UpdateProviderStatus(p, m, true, nil) creates a healthy
\* record with LastCheck set; a following UpdateProviderStatus(p, m, false, err)
\* with a non-nil error leaves the record unhealthy with LastError set.
C16_FailureMarksUnhealthy ==
    /\ (Updated /\ last.before = Nil /\ last.healthy) =>
          /\ last.key \in DOMAIN providerStatus
          /\ providerStatus[last.key].Healthy
          /\ providerStatus[last.key].LastCheck = last.at
    /\ (Updated /\ CreatedBySuccess(last.before) /\ ~last.healthy /\ last.err # NoError) =>
          /\ ~providerStatus[last.key].Healthy
          /\ providerStatus[last.key].LastError = last.err

Streamed == last.op = "AIQueryStream"
StreamCalled == Streamed /\ last.attempts # <<>> /\ last.attempts[1].called

\* the record a health update for attempt `a` leaves behind
HealthRecorded(a) ==
    /\ StatusKey(a.Provider, a.Model) \in DOMAIN providerStatus
    /\ IF a.err = NoError
       THEN /\ providerStatus[StatusKey(a.Provider, a.Model)].ErrorCount = 0
            /\ providerStatus[StatusKey(a.Provider, a.Model)].Healthy
       ELSE /\ providerStatus[StatusKey(a.Provider, a.Model)].ErrorCount >= 1
            /\ providerStatus[StatusKey(a.Provider, a.Model)].LastError = a.err

\* C17: a streaming request applies the health updates of a unary request:
\* the outcome of its adapter call is recorded for the attempted (provider,
\* model), a failure counting toward opening the circuit.
C17_StreamUpdatesHealth ==
    StreamCalled => HealthRecorded(last.attempts[1])

\* C18: a streaming request bypasses the cache: the request leaves the cache
\* contents unchanged and calls the provider it would call on an empty cache.
C18_StreamBypassesCache ==
    [][(last'.op = "AIQueryStream" /\ last'.routing # Nil /\ now' = now) =>
          /\ cache' = cache
          /\ SameRouting(last'.routing,
                         RouteOn(<<>>, <<last'.req.Prompt, last'.req.TaskType,
                                         last'.req.Pin>>).result)]_vars

\* the score routing gives descriptor d for routing input x
ScoreFor(d, x) ==
    calculateScore(d, StrLen(x[1]), IF x[2] = "" THEN "text-generation" ELSE x[2])

\* the eligible descriptors of x's task type other than the primary of r
Runners(r, x) ==
    SelectSeq(ProvidersFor(x[2]),
              LAMBDA d : Eligible(d, x[1]) /\ ~(d.Name = r.Provider /\ d.Model = r.Model))

NextBest(r, x, runners) ==
    /\ Len(r.Fallbacks) = IF Len(runners) < 3 THEN Len(runners) ELSE 3
    /\ \A i \in 1..Len(r.Fallbacks) :
          /\ InList(runners, r.Fallbacks[i].Name, r.Fallbacks[i].Model)
          /\ \A j \in i + 1..Len(r.Fallbacks) :
                ScoreFor(r.Fallbacks[i], x) >= ScoreFor(r.Fallbacks[j], x)
          /\ \A k \in 1..Len(runners) :
                InList(r.Fallbacks, runners[k].Name, runners[k].Model)
                   \/ ScoreFor(r.Fallbacks[i], x) >= ScoreFor(runners[k], x)

\* C19: the fallback list of a routing result is exactly the next
\* highest-scoring eligible descriptors after the primary, in descending
\* score order, at most K = 3 of them.
C19_FallbacksAreNextBest ==
    \A x \in Routings :
        Route(x).err = NoError => NextBest(Route(x), x, Runners(Route(x), x))

Quiescent == \A g \in Goroutines : goroutines[g].pc \in {"idle", "done"}
UpdatesDone == {g \in Goroutines : goroutines[g].op = "update" /\ goroutines[g].pc = "done"}

\* C20: under any interleaving no access to the tracker map or to the cache
\* map overlaps with a write to the same map, and once n concurrent failure
\* updates for one (provider, model) have returned its error_count is n.
C20_ReaderWriterDiscipline ==
    /\ \A g \in Goroutines : ~Overlaps(g)
    /\ (Quiescent /\ UpdatesDone # {}) =>
          /\ RaceKey \in DOMAIN providerStatus
          /\ providerStatus[RaceKey].ErrorCount = Cardinality(UpdatesDone)

\* C21: a cache Set never replaces an entry of its key whose created_at is
\* newer than the created_at of the entry it writes, however concurrent Set
\* calls for the key interleave.
C21_SetKeepsNewerEntry ==
    [][\A g \in Goroutines :
          (/\ At(g, "cache_storing")
           /\ goroutines'[g].pc = "done"
           /\ RaceCacheKey \in DOMAIN cache)
          => cache'[RaceCacheKey].CreatedAt >= cache[RaceCacheKey].CreatedAt]_vars

\* C22: every health check treats a missing record as healthy: IsProviderHealthy
\* is true of a pair the tracker has no record of, and ExecuteWithRetry calls
\* the task for a provider the load balancer has no record of.
C22_AbsenceIsHealthy ==
    /\ \A t \in DOMAIN availableProviders :
          \A i \in 1..Len(availableProviders[t]) :
              LET d == availableProviders[t][i]
              IN StatusKey(d.Name, d.Model) \notin DOMAIN providerStatus
                    => IsProviderHealthy(d.Name, d.Model)
    /\ (last.op = "ExecuteWithRetry" /\ ~last.recorded) => last.calls > 0

\* C23: recovery restarts the failure count. When a failure is reported for a
\* pair that was Open and had become eligible again because more than
\* Quarantine had passed since its last update, the pair is left with
\* error_count = 1 and is still eligible.
C23_RecoveryRestartsCount ==
    (/\ last.op = "UpdateProviderStatus"
     /\ ~last.healthy
     /\ last.at = now
     /\ last.before # Nil
     /\ ~last.before.Healthy
     /\ last.at - last.before.LastCheck > Quarantine)
    => /\ providerStatus[last.key].ErrorCount = 1
       /\ HealthyAt(providerStatus, providerStatus[last.key].Name,
                    providerStatus[last.key].Model, now)

\* C24: cache failures never fail a request. Whatever the cache backend does
\* (a Get error, a Set error, a failed initialisation at start-up), a request
\* that passed validation is routed without a crash and then either answered
\* from the cache or taken to the provider call.
C24_CacheFailuresNonFatal ==
    (last.op = "AIQuery" /\ last.status \notin {400, 401})
    => /\ last.error # NilDereference
       /\ last.routing # Nil
       /\ \/ last.routing.Reasoning = CacheHitReasoning
          \/ Len(last.attempts) > 0

\* C25: handling a request spawns no background task: no step of the request
\* pipeline changes the number of live health-checker goroutines.
C25_NoBackgroundTasks == [][healthCheckers' = healthCheckers]_vars

\* C26: GenerateCacheKey is deterministic and injective before the digest: two
\* argument tuples give the same key exactly when they are the same tuple,
\* also when a component contains the separator.
C26_KeyInjective ==
    last.op = "GenerateCacheKey" => (last.keyA = last.keyB <=> last.a = last.b)

\* the scores scoreProviders computes for a request x = <<prompt, task type>>,
\* one per descriptor of its task type
RequestScores(x) ==
    [i \in 1..Len(ProvidersFor(x[2])) |-> ScoreFor(ProvidersFor(x[2])[i], x)]

Highest(scores, skip) ==
    CHOOSE i \in DOMAIN scores \ skip : \A j \in DOMAIN scores \ skip : scores[i] >= scores[j]

\* top score minus second score
TopGap(scores) ==
    scores[Highest(scores, {})] - scores[Highest(scores, {Highest(scores, {})})]

\* C27: the confidence returned for an auto-routed request is
\* min(0.5 + (top_score - second_score), 1.0) over the two highest scores
\* computed for that request, hence within [0.5, 1.0]; it is 1.0 when the task
\* type has a single descriptor.
C27_ConfidenceFromRequestScores ==
    (/\ Handled
     /\ last.routing # Nil
     /\ last.routing.Reasoning \notin {CacheHitReasoning, PinnedReasoning})
    => /\ last.routing.Confidence =
             IF Len(RequestScores(<<last.req.Prompt, last.req.TaskType>>)) <= 1
             THEN 10000
             ELSE Min(5000 + TopGap(RequestScores(<<last.req.Prompt, last.req.TaskType>>)),
                      10000)
       /\ last.routing.Confidence >= 5000
       /\ last.routing.Confidence <= 10000

\* the key CacheResponseResult wrote the answer of the observed request under
WriteKey(obs) ==
    GenerateCacheKey(obs.req.Prompt, Str(obs.req.TaskType), Str(obs.response.Provider),
                     Str(obs.response.Model))

\* C28: repeat requests are served from the cache. When a request without a
\* pin has been answered by a provider and its response cached, the same
\* request issued next, within the TTL of that entry, looks up the key the
\* response was written under, is a cache hit and makes no adapter call.
C28_RepeatServedFromCache ==
    [][(/\ Answered
        /\ last.req.Pin = <<"", "">>
        /\ ~last.response.CacheHit
        /\ WriteKey(last) \in DOMAIN cache
        /\ now - cache[WriteKey(last)].CreatedAt < CacheExpiration
        /\ now' = now
        /\ last'.op = "AIQuery"
        /\ last'.req = last.req)
       => /\ LookupKey(last.req) = WriteKey(last)
          /\ last'.routing # Nil
          /\ last'.routing.Reasoning = CacheHitReasoning
          /\ last'.attempts = <<>>]_vars

\* C29: among the POST requests that carry the same Idempotency-Key within 5
\* minutes the handler runs at most once, however the requests interleave.
C29_HandlerRunsOncePerKey ==
    \A x \in DOMAIN downstream.executed, y \in DOMAIN downstream.executed :
        (/\ Method(x[1]) = "POST"
         /\ Method(y[1]) = "POST"
         /\ IdempotencyKey(x[1]) # ""
         /\ IdempotencyKey(x[1]) = IdempotencyKey(y[1])
         /\ x[2] <= y[2]
         /\ y[2] - x[2] < IdempotencyWindow)
        => x = y /\ downstream.executed[x] = 1

\* C30: RateLimitMiddleware(Limit) lets at most Limit requests of a client IP
\* through to the next handler within one 60-second window, however the
\* requests interleave.
C30_AtMostLimitPerWindow ==
    \A t \in DOMAIN downstream.admitted : downstream.admitted[t] <= Limit

====
